---- MODULE Spec2Model ----
(***************************************************************************)
(* The ElevenLabs webhook outcome pipeline of backend/routers/webhooks.py: *)
(* the request handler handle_elevenlabs_webhook, the background task      *)
(* process_call_outcome and its two sub-flows handle_successful_reschedule *)
(* and create_follow_up_flag, over the store kept by the Supabase client.  *)
(*                                                                         *)
(* One request is one entry of reqs.  The handler runs as one action (it   *)
(* writes nothing to the store); the background task advances one awaited  *)
(* collaborator call per action, so tasks of different requests interleave *)
(* at exactly the suspension points of the Python coroutines.              *)
(*                                                                         *)
(* The login operation of backend/routers/auth.py is modelled at the end   *)
(* of the model part: one login request is one entry of logins, over the   *)
(* user rows of the same store.                                            *)
(***************************************************************************)
EXTENDS Naturals, Sequences, FiniteSets

VARIABLES reqs, callLogs, referrals, flags, emails, emailLogs,
          calendarEvents, calendar_available, now, failures, users, logins

vars == <<reqs, callLogs, referrals, flags, emails, emailLogs,
          calendarEvents, calendar_available, now, failures, users, logins>>

\* What the login operation works on; the webhook pipeline leaves it alone.
auth == <<users, logins>>

\* Python's None, for string-valued fields.
None == "None"

\* Python truthiness of an Optional[str].
Truthy(x) == x /= None /\ x /= ""

\* Number of deliveries the provider makes in one behaviour.
MaxDeliveries == 2

\* Number of deliveries in one behaviour of the vocabulary specification.
MaxVocabDeliveries == 1

\* Number of collaborator calls (store, calendar, email) that fail in one
\* behaviour.
MaxFailures == 1

\* Number of login requests in one behaviour.
MaxLogins == 2

HTTP_200_OK == 200
HTTP_400_BAD_REQUEST == 400
HTTP_401_UNAUTHORIZED == 401

(***************************************************************************)
(* Enum values of models.schemas (CallStatus, CallResolution,              *)
(* FlagPriority, EmailStatus), as the spec's data model names them.        *)
(***************************************************************************)
CallStatus == [PENDING |-> "pending", IN_PROGRESS |-> "in_progress",
               COMPLETED |-> "completed", FAILED |-> "failed",
               NO_ANSWER |-> "no_answer"]

CallResolution == [RESCHEDULED |-> "rescheduled", DECLINED |-> "declined",
                   LEFT_VOICEMAIL |-> "left_voicemail",
                   CALLBACK_REQUESTED |-> "callback_requested",
                   NO_ANSWER |-> "no_answer"]

FlagPriority == [LOW |-> "low", MEDIUM |-> "medium", HIGH |-> "high",
                 URGENT |-> "urgent"]

\* Glossary: the statuses from which no further transition is expected.
TerminalStatus == {CallStatus.COMPLETED, CallStatus.FAILED, CallStatus.NO_ANSWER}

(***************************************************************************)
(* The store before the first delivery: two call attempts still pending,   *)
(* each for its own missed referral.  r1 has a linked calendar event and a *)
(* contact email, r2 has neither.                                          *)
(***************************************************************************)
CallLogIds == {"c1", "c2"}
ReferralIds == {"r1", "r2"}

InitCallLog(rid) ==
    [referral_id |-> rid, status |-> CallStatus.PENDING, resolution |-> None,
     completed_at |-> <<>>, transcript |-> None, duration_seconds |-> None]

InitCallLogs == [c \in CallLogIds |-> InitCallLog(IF c = "c1" THEN "r1" ELSE "r2")]

InitReferrals ==
    [r \in ReferralIds |->
        [status |-> "missed", scheduled_date |-> "D0",
         calendar_event_id |-> IF r = "r1" THEN "ev1" ELSE None,
         patient_email |-> IF r = "r1" THEN "pat@x" ELSE None]]

(***************************************************************************)
(* Deliveries.  sig is the X-Webhook-Signature header: None (absent),      *)
(* "bad" (does not match the body) or "good" (the HMAC of the body).  form *)
(* says whether the body decodes into an ElevenLabsWebhookPayload.         *)
(***************************************************************************)
Body(form, st, oc, t, tr, dur, cid) ==
    [form |-> form, status |-> st, outcome |-> oc, new_appointment_time |-> t,
     transcript |-> tr, duration_seconds |-> dur, call_log_id |-> cid]

\* The events of the spec's scenarios A and B.
CoreEvents ==
    { <<"completed", "rescheduled", "T1", "hello", "120">>,
      <<"failed", "declined", None, None, None>> }

\* The whole vocabulary of status and outcome, mapped and unmapped.
Statuses == {"completed", "failed", "no_answer", "busy"}
Outcomes == {None, "", "rescheduled", "declined", "voicemail",
             "callback_requested", "no_answer", "invalid_number", "hung_up"}

\* Every status with every outcome; a new appointment time with none, with
\* the outcomes rescheduled and declined also with one.
AllEvents ==
    CoreEvents
    \cup { <<st, oc, None, None, None>> : st \in Statuses, oc \in Outcomes }
    \cup { <<st, oc, t, None, None>> :
            st \in Statuses, oc \in {"rescheduled", "declined"}, t \in {"T1", "T2"} }

BodiesOf(events, ids) ==
    { Body("ok", e[1], e[2], e[3], e[4], e[5], cid) : e \in events, cid \in ids }
    \cup { Body("ok", "completed", "rescheduled", "T1", "hello", "120", cid) :
            cid \in {None, "", "c9"} }
    \cup { Body("ok", "failed", "declined", None, None, None, "c9") }
    \cup { Body(f, None, None, None, None, None, "c1") :
        f \in {"malformed_json", "missing_status"} }
    \cup { Body("missing_metadata", "completed", "rescheduled", "T1", None, None, None) }

DeliveriesOf(events, ids) ==
    { [sig |-> "good", body |-> b] : b \in BodiesOf(events, ids) }
    \cup { [sig |-> s, body |-> b] :
            s \in {None, "bad"},
            b \in { Body("ok", "completed", "rescheduled", "T1", "hello", "120", "c1"),
                    Body("malformed_json", None, None, None, None, None, "c1") } }

(***************************************************************************)
(* Collaborators whose code is outside routers/: the signature verifier,   *)
(* the payload schema and the store's referral reschedule.                 *)
(***************************************************************************)
verify_webhook_signature(body, signature) == signature = "good"

\* request.json() and ElevenLabsWebhookPayload(**payload_dict) succeed: the
\* body is JSON and has the required fields, status and the correlation
\* payload.
payload_validates(body) ==
    body.form \notin {"malformed_json", "missing_status", "missing_metadata"}

db_reschedule_referral(ref, new_datetime) ==
    [ref EXCEPT !.status = "scheduled", !.scheduled_date = new_datetime]

(***************************************************************************)
(* handle_elevenlabs_webhook                                               *)
(***************************************************************************)
\* A referral variable not yet assigned.
NoReferral ==
    [status |-> None, scheduled_date |-> None, calendar_event_id |-> None,
     patient_email |-> None]

NoTask ==
    [pc |-> "none", call_log_id |-> None, call_log |-> InitCallLog(None),
     existing |-> NoReferral, referral |-> NoReferral, trace |-> <<>>]

Response(code, message) == [code |-> code, message |-> message]

\* The request record the handler leaves: the delivery, its response, the
\* steps the handler took (htrace) and the background task it submitted.
Req(d, resp, htrace, task) ==
    [d |-> d, resp |-> resp, htrace |-> htrace, task |-> task]

\* Lines 86-109: after a successful decode, resolve the call log and submit
\* the background task with the row as it is read now.
Correlate_404(d) ==
    IF d.body.call_log_id \in DOMAIN callLogs
    THEN Req(d, Response(HTTP_200_OK, "Webhook received, processing"),
             <<"verify", "decode", "get_call_log", "add_task">>,
             [NoTask EXCEPT !.pc = "update_call_log",
                            !.call_log_id = d.body.call_log_id,
                            !.call_log = callLogs[d.body.call_log_id]])
    ELSE Req(d, Response(HTTP_400_BAD_REQUEST, "Call log not found"),
             <<"verify", "decode", "get_call_log">>, NoTask)

Correlate(d) ==
    LET call_log_id == d.body.call_log_id
    IN  IF ~Truthy(call_log_id)
        THEN Req(d, Response(HTTP_200_OK, "Call log ID not found, ignoring"),
                 <<"verify", "decode">>, NoTask)
        ELSE IF call_log_id \notin DOMAIN callLogs
        THEN Req(d, Response(HTTP_200_OK, "Call log not found, ignoring"),
                 <<"verify", "decode", "get_call_log">>, NoTask)
        ELSE Req(d, Response(HTTP_200_OK, "Webhook received, processing"),
                 <<"verify", "decode", "get_call_log", "add_task">>,
                 [NoTask EXCEPT !.pc = "update_call_log",
                                !.call_log_id = call_log_id,
                                !.call_log = callLogs[call_log_id]])

\* As Decode, but a body that does not validate is passed on to the lookup.
Decode_unvalidated(d) == Correlate(d)

\* Lines 76-84: decode the body, 400 when it does not parse or validate.
Decode(d) ==
    IF ~payload_validates(d.body)
    THEN Req(d, Response(HTTP_400_BAD_REQUEST, "Invalid payload"),
             <<"verify", "decode">>, NoTask)
    ELSE Correlate(d)

\* The header passed to the verifier: x_webhook_signature or "".
SignatureOf(d) == IF d.sig = None THEN "" ELSE d.sig

\* As HandlerResult, but the signature is verified only when the header is
\* present.
HandlerResult_optional_header(d) ==
    IF d.sig /= None /\ ~verify_webhook_signature(d.body, SignatureOf(d))
    THEN Req(d, Response(HTTP_401_UNAUTHORIZED, "Invalid webhook signature"),
             <<"verify">>, NoTask)
    ELSE Decode(d)

\* Lines 65-74: verify the signature over the raw body before anything else.
HandlerResult(d) ==
    IF ~verify_webhook_signature(d.body, SignatureOf(d))
    THEN Req(d, Response(HTTP_401_UNAUTHORIZED, "Invalid webhook signature"),
             <<"verify">>, NoTask)
    ELSE Decode(d)

\* As handle_elevenlabs_webhook, but the handler itself marks the call
\* attempt of an accepted delivery as in progress before it answers.
handle_elevenlabs_webhook_marks_in_progress(d) ==
    /\ reqs' = Append(reqs, HandlerResult(d))
    /\ callLogs' = IF HandlerResult(d).task.pc = "none"
                   THEN callLogs
                   ELSE [callLogs EXCEPT ![HandlerResult(d).task.call_log_id].status =
                            CallStatus.IN_PROGRESS]
    /\ UNCHANGED <<referrals, flags, emails, emailLogs,
                   calendarEvents, calendar_available, now, failures>>
    /\ UNCHANGED auth

handle_elevenlabs_webhook(d) ==
    /\ reqs' = Append(reqs, HandlerResult(d))
    /\ UNCHANGED <<callLogs, referrals, flags, emails, emailLogs,
                   calendarEvents, calendar_available, now, failures>>
    /\ UNCHANGED auth


(***************************************************************************)
(* process_call_outcome                                                    *)
(***************************************************************************)
Get(map, key, default) == IF key \in DOMAIN map THEN map[key] ELSE default

status_map ==
    [completed |-> CallStatus.COMPLETED, failed |-> CallStatus.FAILED,
     no_answer |-> CallStatus.NO_ANSWER]

resolution_map ==
    [rescheduled |-> CallResolution.RESCHEDULED,
     declined |-> CallResolution.DECLINED,
     voicemail |-> CallResolution.LEFT_VOICEMAIL,
     callback_requested |-> CallResolution.CALLBACK_REQUESTED,
     no_answer |-> CallResolution.NO_ANSWER]

\* As call_update, but the resolution is looked up under the status.
call_update_by_status(payload, utcnow) ==
    [status |-> Get(status_map, payload.status, CallStatus.COMPLETED),
     resolution |-> Get(resolution_map, payload.status, None),
     completed_at |-> <<utcnow>>,
     transcript |-> payload.transcript,
     duration_seconds |-> payload.duration_seconds]

call_update(payload, utcnow) ==
    [status |-> Get(status_map, payload.status, CallStatus.COMPLETED),
     resolution |-> IF Truthy(payload.outcome)
                    THEN Get(resolution_map, payload.outcome, None)
                    ELSE None,
     completed_at |-> <<utcnow>>,
     transcript |-> payload.transcript,
     duration_seconds |-> payload.duration_seconds]

\* db.update_call_log(id, update): the fields of update overwrite the row.
ApplyUpdate(row, update) ==
    [row EXCEPT !.status = update.status, !.resolution = update.resolution,
                !.completed_at = update.completed_at,
                !.transcript = update.transcript,
                !.duration_seconds = update.duration_seconds]

\* As SubFlow, but the outcome alone decides.
SubFlow_outcome_only(payload) ==
    IF payload.outcome = "rescheduled" THEN "get_referral" ELSE "create_flag"

\* The branch of lines 153-172: the sub-flow the task enters after the update.
SubFlow(payload) ==
    IF payload.outcome = "rescheduled" /\ payload.new_appointment_time /= None
    THEN "get_referral"
    ELSE "create_flag"

Task(i) == reqs[i].task
Payload(i) == reqs[i].d.body
ReferralId(i) == Task(i).call_log.referral_id

\* A collaborator call ends with result res; any result but "ok" is one of
\* the failures of the behaviour.
Outcome(res) ==
    /\ res /= "ok" => failures < MaxFailures
    /\ failures' = IF res = "ok" THEN failures ELSE failures + 1

\* The task of request i moves to pc, having called op with result res.
Advance(i, pc, op, res) ==
    reqs' = [reqs EXCEPT ![i].task.pc = pc,
                         ![i].task.trace = Append(@, <<op, res>>)]

\* Request i exists and its task stands at pc.
At(i, pc) == i <= Len(reqs) /\ reqs[i].task.pc = pc

\* As update_call_log, but a failure of the write is swallowed and the
\* branch is taken all the same.
update_call_log_swallowed(i) ==
    /\ At(i, "update_call_log")
    /\ now' = now + 1
    /\ \E res \in {"ok", "raise"} :
        /\ Outcome(res)
        /\ callLogs' = IF res = "ok"
                       THEN [callLogs EXCEPT ![Task(i).call_log_id] =
                                ApplyUpdate(@, call_update(Payload(i), now))]
                       ELSE callLogs
        /\ Advance(i, SubFlow(Payload(i)), "update_call_log", res)
    /\ UNCHANGED <<referrals, flags, emails, emailLogs, calendarEvents,
                   calendar_available>>
    /\ UNCHANGED auth

\* Lines 139-172: the awaited db.update_call_log, then the branch.  The
\* result of the call is not read: the store writes the row ("ok") or the
\* call raises, which ends the task.
update_call_log(i) ==
    /\ At(i, "update_call_log")
    /\ now' = now + 1
    /\ \E res \in {"ok", "raise"} :
        /\ Outcome(res)
        /\ callLogs' = IF res = "ok"
                       THEN [callLogs EXCEPT ![Task(i).call_log_id] =
                                ApplyUpdate(@, call_update(Payload(i), now))]
                       ELSE callLogs
        /\ Advance(i, IF res = "raise" THEN "error" ELSE SubFlow(Payload(i)),
                   "update_call_log", res)
    /\ UNCHANGED <<referrals, flags, emails, emailLogs, calendarEvents,
                   calendar_available>>
    /\ UNCHANGED auth

(***************************************************************************)
(* handle_successful_reschedule                                            *)
(***************************************************************************)
\* Lines 201-205: db.get_referral; a referral that is not found ends the
\* sub-flow with a plain return.
get_referral(i) ==
    /\ At(i, "get_referral")
    /\ \E res \in {"ok", "none", "raise"} :
        /\ Outcome(res)
        /\ reqs' = [reqs EXCEPT
            ![i].task.pc = CASE res = "ok" -> "reschedule_referral"
                             [] res = "none" -> "done"
                             [] OTHER -> "error",
            ![i].task.existing = IF res = "ok" THEN referrals[ReferralId(i)] ELSE @,
            ![i].task.trace = Append(@, <<"get_referral", res>>)]
    /\ UNCHANGED <<callLogs, referrals, flags, emails, emailLogs,
                   calendarEvents, calendar_available, now>>
    /\ UNCHANGED auth

\* As reschedule_referral, but this call writes the status alone.
reschedule_referral_status_only(i) ==
    /\ At(i, "reschedule_referral")
    /\ \E res \in {"ok", "none", "raise"} :
        LET updated == [referrals[ReferralId(i)] EXCEPT !.status = "scheduled"]
        IN  /\ Outcome(res)
            /\ referrals' = IF res = "ok"
                            THEN [referrals EXCEPT ![ReferralId(i)] = updated]
                            ELSE referrals
            /\ reqs' = [reqs EXCEPT
                ![i].task.pc = CASE res = "ok" -> "calendar"
                                 [] res = "none" -> "done"
                                 [] OTHER -> "error",
                ![i].task.referral = IF res = "ok" THEN updated ELSE @,
                ![i].task.trace = Append(@, <<"reschedule_referral", res>>)]
    /\ UNCHANGED <<callLogs, flags, emails, emailLogs, calendarEvents,
                   calendar_available, now>>
    /\ UNCHANGED auth

\* Lines 215-225: one db.reschedule_referral call writes status and date;
\* a falsy result ends the sub-flow with a plain return.
reschedule_referral(i) ==
    /\ At(i, "reschedule_referral")
    /\ \E res \in {"ok", "none", "raise"} :
        LET updated == db_reschedule_referral(referrals[ReferralId(i)],
                                              Payload(i).new_appointment_time)
        IN  /\ Outcome(res)
            /\ referrals' = IF res = "ok"
                            THEN [referrals EXCEPT ![ReferralId(i)] = updated]
                            ELSE referrals
            /\ reqs' = [reqs EXCEPT
                ![i].task.pc = CASE res = "ok" -> "calendar"
                                 [] res = "none" -> "done"
                                 [] OTHER -> "error",
                ![i].task.referral = IF res = "ok" THEN updated ELSE @,
                ![i].task.trace = Append(@, <<"reschedule_referral", res>>)]
    /\ UNCHANGED <<callLogs, flags, emails, emailLogs, calendarEvents,
                   calendar_available, now>>
    /\ UNCHANGED auth

\* As update_referral_event, but the update is attempted whether or not the
\* calendar service imports.
update_referral_event_unguarded(i) ==
    /\ At(i, "calendar")
    /\ IF Truthy(Task(i).existing.calendar_event_id)
       THEN \E res \in {"ok", "raise"} :
            /\ Outcome(res)
            /\ calendarEvents' =
                 IF res = "ok"
                 THEN [calendarEvents EXCEPT ![Task(i).existing.calendar_event_id] =
                          Payload(i).new_appointment_time]
                 ELSE calendarEvents
            /\ Advance(i, "email", "update_referral_event", res)
       ELSE /\ UNCHANGED <<calendarEvents, failures>>
            /\ reqs' = [reqs EXCEPT ![i].task.pc = "email"]
    /\ UNCHANGED <<callLogs, referrals, flags, emails, emailLogs,
                   calendar_available, now>>
    /\ UNCHANGED auth

\* As update_referral_event, but a failure of the calendar update is not
\* caught and ends the task.
update_referral_event_uncaught(i) ==
    /\ At(i, "calendar")
    /\ IF calendar_available /\ Truthy(Task(i).existing.calendar_event_id)
       THEN \E res \in {"ok", "raise"} :
            /\ Outcome(res)
            /\ calendarEvents' =
                 IF res = "ok"
                 THEN [calendarEvents EXCEPT ![Task(i).existing.calendar_event_id] =
                          Payload(i).new_appointment_time]
                 ELSE calendarEvents
            /\ Advance(i, IF res = "ok" THEN "email" ELSE "error",
                       "update_referral_event", res)
       ELSE /\ UNCHANGED <<calendarEvents, failures>>
            /\ reqs' = [reqs EXCEPT ![i].task.pc = "email"]
    /\ UNCHANGED <<callLogs, referrals, flags, emails, emailLogs,
                   calendar_available, now>>
    /\ UNCHANGED auth

\* Lines 230-242: the calendar update, attempted when the service imports and
\* the referral read at line 202 has a calendar_event_id; its failure is caught.
update_referral_event(i) ==
    /\ At(i, "calendar")
    /\ IF calendar_available /\ Truthy(Task(i).existing.calendar_event_id)
       THEN \E res \in {"ok", "raise"} :
            /\ Outcome(res)
            /\ calendarEvents' =
                 IF res = "ok"
                 THEN [calendarEvents EXCEPT ![Task(i).existing.calendar_event_id] =
                          Payload(i).new_appointment_time]
                 ELSE calendarEvents
            /\ Advance(i, "email", "update_referral_event", res)
       ELSE /\ UNCHANGED <<calendarEvents, failures>>
            /\ reqs' = [reqs EXCEPT ![i].task.pc = "email"]
    /\ UNCHANGED <<callLogs, referrals, flags, emails, emailLogs,
                   calendar_available, now>>
    /\ UNCHANGED auth

\* datetime.fromisoformat of the stored date, None when there is none.
old_datetime(existing) ==
    IF Truthy(existing.scheduled_date) THEN existing.scheduled_date ELSE None

\* As send_appointment_rescheduled_email, but the log entry is written
\* whatever the service reports.
send_appointment_rescheduled_email_always_logged(i) ==
    /\ At(i, "email")
    /\ IF Truthy(Task(i).referral.patient_email)
       THEN \E res \in {"ok", "unsuccessful", "raise"} :
            /\ Outcome(res)
            /\ emails' =
                 IF res = "ok"
                 THEN emails \cup {[to_email |-> Task(i).referral.patient_email,
                                    new_datetime |-> Payload(i).new_appointment_time,
                                    old_datetime |-> old_datetime(Task(i).existing),
                                    by |-> i]}
                 ELSE emails
            /\ Advance(i, IF res = "raise" THEN "done" ELSE "email_log",
                       "send_appointment_rescheduled_email", res)
       ELSE /\ UNCHANGED <<emails, failures>>
            /\ reqs' = [reqs EXCEPT ![i].task.pc = "done"]
    /\ UNCHANGED <<callLogs, referrals, flags, emailLogs, calendarEvents,
                   calendar_available, now>>
    /\ UNCHANGED auth

\* Lines 244-257, 273-274: the reschedule email, attempted when the updated
\* referral has a patient_email.  The service reports success, reports
\* failure, or raises (caught).
send_appointment_rescheduled_email(i) ==
    /\ At(i, "email")
    /\ IF Truthy(Task(i).referral.patient_email)
       THEN \E res \in {"ok", "unsuccessful", "raise"} :
            /\ Outcome(res)
            /\ emails' =
                 IF res = "ok"
                 THEN emails \cup {[to_email |-> Task(i).referral.patient_email,
                                    new_datetime |-> Payload(i).new_appointment_time,
                                    old_datetime |-> old_datetime(Task(i).existing),
                                    by |-> i]}
                 ELSE emails
            /\ Advance(i, IF res = "ok" THEN "email_log" ELSE "done",
                       "send_appointment_rescheduled_email", res)
       ELSE /\ UNCHANGED <<emails, failures>>
            /\ reqs' = [reqs EXCEPT ![i].task.pc = "done"]
    /\ UNCHANGED <<callLogs, referrals, flags, emailLogs, calendarEvents,
                   calendar_available, now>>
    /\ UNCHANGED auth

\* Lines 259-274: the log entry of a successful send; its failure is caught.
create_email_log(i) ==
    /\ At(i, "email_log")
    /\ \E res \in {"ok", "raise"} :
        /\ Outcome(res)
        /\ emailLogs' =
             IF res = "ok"
             THEN emailLogs \cup {[referral_id |-> ReferralId(i),
                                   email_type |-> "appointment_rescheduled",
                                   recipient_email |-> Task(i).referral.patient_email,
                                   status |-> "sent",
                                   by |-> i]}
             ELSE emailLogs
        /\ Advance(i, "done", "create_email_log", res)
    /\ UNCHANGED <<callLogs, referrals, flags, emails, calendarEvents,
                   calendar_available, now>>
    /\ UNCHANGED auth

(***************************************************************************)
(* create_follow_up_flag                                                   *)
(***************************************************************************)
\* As priority_map, but no_answer is high.
priority_map_no_answer_high ==
    [declined |-> FlagPriority.HIGH, no_answer |-> FlagPriority.HIGH,
     voicemail |-> FlagPriority.MEDIUM,
     callback_requested |-> FlagPriority.HIGH,
     invalid_number |-> FlagPriority.URGENT, failed |-> FlagPriority.HIGH]

priority_map ==
    [declined |-> FlagPriority.HIGH, no_answer |-> FlagPriority.MEDIUM,
     voicemail |-> FlagPriority.MEDIUM,
     callback_requested |-> FlagPriority.HIGH,
     invalid_number |-> FlagPriority.URGENT, failed |-> FlagPriority.HIGH]

\* call_outcome.replace('_', ' ').title() on the vocabulary of the model.
TitleCase(call_outcome) ==
    CASE call_outcome = "declined" -> "Declined"
      [] call_outcome = "no_answer" -> "No Answer"
      [] call_outcome = "voicemail" -> "Voicemail"
      [] call_outcome = "callback_requested" -> "Callback Requested"
      [] call_outcome = "invalid_number" -> "Invalid Number"
      [] call_outcome = "failed" -> "Failed"
      [] call_outcome = "completed" -> "Completed"
      [] call_outcome = "rescheduled" -> "Rescheduled"
      [] call_outcome = "hung_up" -> "Hung Up"
      [] call_outcome = "busy" -> "Busy"

\* Line 170: payload.outcome or payload.status.
call_outcome_of(payload) ==
    IF Truthy(payload.outcome) THEN payload.outcome ELSE payload.status

flag_data(referral_id, call_outcome, transcript) ==
    [referral_id |-> referral_id,
     title |-> <<"Follow-up needed: ", TitleCase(call_outcome)>>,
     description |-> <<call_outcome, IF Truthy(transcript) THEN transcript ELSE None>>,
     priority |-> Get(priority_map, call_outcome, FlagPriority.MEDIUM),
     status |-> "open"]

\* As create_flag, but the referral is marked as well.
create_flag_marks_referral(i) ==
    /\ At(i, "create_flag")
    /\ \E res \in {"ok", "raise"} :
        /\ Outcome(res)
        /\ flags' =
             IF res = "ok"
             THEN flags \cup {[by |-> i,
                               data |-> flag_data(ReferralId(i),
                                                  call_outcome_of(Payload(i)),
                                                  Payload(i).transcript)]}
             ELSE flags
        /\ referrals' = [referrals EXCEPT ![ReferralId(i)].status = "needs_follow_up"]
        /\ Advance(i, IF res = "raise" THEN "error" ELSE "done", "create_flag", res)
    /\ UNCHANGED <<callLogs, emails, emailLogs, calendarEvents,
                   calendar_available, now>>
    /\ UNCHANGED auth

\* As create_flag, but the new flag replaces the flags the referral has.
create_flag_replaces(i) ==
    /\ At(i, "create_flag")
    /\ \E res \in {"ok", "raise"} :
        /\ Outcome(res)
        /\ flags' = IF res = "ok"
                    THEN {f \in flags : f.data.referral_id /= ReferralId(i)} \cup
                         {[by |-> i,
                           data |-> flag_data(ReferralId(i),
                                              call_outcome_of(Payload(i)),
                                              Payload(i).transcript)]}
                    ELSE flags
        /\ Advance(i, IF res = "raise" THEN "error" ELSE "done", "create_flag", res)
    /\ UNCHANGED <<callLogs, referrals, emails, emailLogs, calendarEvents,
                   calendar_available, now>>
    /\ UNCHANGED auth

\* As create_flag, but a creation that raised is attempted again.
create_flag_retried(i) ==
    /\ At(i, "create_flag")
    /\ \E res \in {"ok", "raise"} :
        /\ Outcome(res)
        /\ flags' = IF res = "ok"
                    THEN flags \cup
                         {[by |-> i,
                           data |-> flag_data(ReferralId(i),
                                              call_outcome_of(Payload(i)),
                                              Payload(i).transcript)]}
                    ELSE flags
        /\ Advance(i, IF res = "raise" THEN "create_flag" ELSE "done",
                   "create_flag", res)
    /\ UNCHANGED <<callLogs, referrals, emails, emailLogs, calendarEvents,
                   calendar_available, now>>
    /\ UNCHANGED auth

\* Lines 311-320: db.create_flag, whose result is not read: the flag is
\* written or the call raises.  The flag row carries the request that made it.
create_flag(i) ==
    /\ At(i, "create_flag")
    /\ \E res \in {"ok", "raise"} :
        /\ Outcome(res)
        /\ flags' =
             IF res = "ok"
             THEN flags \cup {[by |-> i,
                               data |-> flag_data(ReferralId(i),
                                                  call_outcome_of(Payload(i)),
                                                  Payload(i).transcript)]}
             ELSE flags
        /\ Advance(i, IF res = "raise" THEN "error" ELSE "done", "create_flag", res)
    /\ UNCHANGED <<callLogs, referrals, emails, emailLogs, calendarEvents,
                   calendar_available, now>>
    /\ UNCHANGED auth

(***************************************************************************)
(* login (routers/auth.py)                                                 *)
(***************************************************************************)
HTTP_403_FORBIDDEN == 403
HTTP_500_INTERNAL_SERVER_ERROR == 500
ACCESS_TOKEN_EXPIRE_HOURS == 24

\* pwd_context.hash and pwd_context.verify: a hash is made from one password
\* and verifies that password alone.
get_password_hash(password) == <<"bcrypt", password>>
verify_password(plain_password, hashed_password) ==
    hashed_password = get_password_hash(plain_password)

\* The user rows of the store: an active user, an inactive one, and one
\* whose row has no is_active.  None has logged in yet.
InitUsers ==
    [e \in {"a@x", "b@x", "c@x"} |->
        CASE e = "a@x" -> [id |-> "u1", email |-> e, role |-> "nurse",
                           password_hash |-> get_password_hash("pw_a"),
                           is_active |-> TRUE, last_login |-> <<>>]
          [] e = "b@x" -> [id |-> "u2", email |-> e, role |-> "nurse",
                           password_hash |-> get_password_hash("pw_b"),
                           is_active |-> FALSE, last_login |-> <<>>]
          [] e = "c@x" -> [id |-> "u3", email |-> e, role |-> "admin",
                           password_hash |-> get_password_hash("pw_a"),
                           last_login |-> <<>>]]

\* The OAuth2 password forms of the model: the three users and an unknown
\* email, each with either stored password or a wrong one.
LoginForms ==
    [username : {"a@x", "b@x", "c@x", "z@x"},
     password : {"pw_a", "pw_b", "wrong"}]

\* The store's update_user_last_login.
db_update_user_last_login(user, utcnow) == [user EXCEPT !.last_login = <<utcnow>>]

\* jwt.encode of the claims and the expiry.
create_access_token(data, expires_delta, utcnow) ==
    [sub |-> data.sub, email |-> data.email, role |-> data.role,
     exp |-> utcnow + expires_delta]

NoToken == <<>>

LoginReply(form_data, code, detail, token) ==
    [form |-> form_data, code |-> code, detail |-> detail, token |-> token]

\* As LoginResponse, but without the check of is_active.
LoginResponse_inactive_allowed(form_data, res) ==
    IF form_data.username \notin DOMAIN users
    THEN LoginReply(form_data, HTTP_401_UNAUTHORIZED, "Incorrect email or password", NoToken)
    ELSE LET user == users[form_data.username]
         IN  IF ~verify_password(form_data.password, user.password_hash)
             THEN LoginReply(form_data, HTTP_401_UNAUTHORIZED,
                             "Incorrect email or password", NoToken)
             ELSE IF res = "raise"
             THEN LoginReply(form_data, HTTP_500_INTERNAL_SERVER_ERROR,
                             "Internal Server Error", NoToken)
             ELSE LoginReply(form_data, HTTP_200_OK, "bearer",
                             <<create_access_token(
                                 [sub |-> user.id, email |-> user.email,
                                  role |-> user.role],
                                 ACCESS_TOKEN_EXPIRE_HOURS, now)>>)

\* Lines 160-207: the answer of login, res being the result of the awaited
\* db.update_user_last_login when it is reached.
LoginResponse(form_data, res) ==
    IF form_data.username \notin DOMAIN users
    THEN LoginReply(form_data, HTTP_401_UNAUTHORIZED, "Incorrect email or password", NoToken)
    ELSE LET user == users[form_data.username]
         IN  IF ~verify_password(form_data.password, user.password_hash)
             THEN LoginReply(form_data, HTTP_401_UNAUTHORIZED,
                             "Incorrect email or password", NoToken)
             ELSE IF ~Get(user, "is_active", TRUE)
             THEN LoginReply(form_data, HTTP_403_FORBIDDEN,
                             "User account is inactive", NoToken)
             ELSE IF res = "raise"
             THEN LoginReply(form_data, HTTP_500_INTERNAL_SERVER_ERROR,
                             "Internal Server Error", NoToken)
             ELSE LoginReply(form_data, HTTP_200_OK, "bearer",
                             <<create_access_token(
                                 [sub |-> user.id, email |-> user.email,
                                  role |-> user.role],
                                 ACCESS_TOKEN_EXPIRE_HOURS, now)>>)

\* Lines 151-207: one login request.  db.update_user_last_login is reached
\* when the three checks pass, and the token is made after it has returned,
\* so the last-login record is written exactly when the answer carries a
\* token.
login(form_data) ==
    /\ \E res \in {"ok", "raise"} :
        LET reply == LoginResponse(form_data, res)
        IN  /\ logins' = Append(logins, reply)
            /\ users' = IF reply.token /= NoToken
                        THEN [users EXCEPT ![form_data.username] =
                                 db_update_user_last_login(@, now)]
                        ELSE users
    /\ now' = now + 1
    /\ UNCHANGED <<reqs, callLogs, referrals, flags, emails, emailLogs,
                   calendarEvents, calendar_available, failures>>

(***************************************************************************)
(* Specifications                                                          *)
(***************************************************************************)
Init ==
    /\ reqs = <<>>
    /\ callLogs = InitCallLogs
    /\ referrals = InitReferrals
    /\ flags = {}
    /\ emails = {}
    /\ emailLogs = {}
    /\ calendarEvents = [e \in {"ev1"} |-> "D0"]
    /\ calendar_available \in BOOLEAN
    /\ now = 1
    /\ failures = 0
    /\ users = InitUsers
    /\ logins = <<>>

\* MaxVocabDeliveries <= MaxDeliveries, so these are the requests of either
\* specification.
Slots == 1..MaxDeliveries

\* Deliveries of the scenario events for call attempt c1, at any time, so
\* that the tasks of redeliveries run concurrently.
Deliver ==
    /\ Len(reqs) < MaxDeliveries
    /\ \E d \in DeliveriesOf(CoreEvents, {"c1"}) : handle_elevenlabs_webhook(d)

Next ==
    \/ Deliver
    \/ \E i \in Slots : update_call_log(i)
    \/ \E i \in Slots : get_referral(i)
    \/ \E i \in Slots : reschedule_referral(i)
    \/ \E i \in Slots : update_referral_event(i)
    \/ \E i \in Slots : send_appointment_rescheduled_email(i)
    \/ \E i \in Slots : create_email_log(i)
    \/ \E i \in Slots : create_flag(i)

Spec == Init /\ [][Next]_vars

\* No background task is in flight.
Idle == \A i \in 1..Len(reqs) : Task(i).pc \in {"none", "done", "error"}

\* Deliveries over the whole vocabulary for call attempt c1 and of the
\* scenario events for c2, each arriving after the processing of the one
\* before has ended.
DeliverVocab ==
    /\ Len(reqs) < MaxVocabDeliveries
    /\ Idle
    /\ \E d \in DeliveriesOf(AllEvents, {"c1"}) \cup DeliveriesOf(CoreEvents, {"c2"}) :
            handle_elevenlabs_webhook(d)

NextVocab ==
    \/ DeliverVocab
    \/ \E i \in Slots : update_call_log(i)
    \/ \E i \in Slots : get_referral(i)
    \/ \E i \in Slots : reschedule_referral(i)
    \/ \E i \in Slots : update_referral_event(i)
    \/ \E i \in Slots : send_appointment_rescheduled_email(i)
    \/ \E i \in Slots : create_email_log(i)
    \/ \E i \in Slots : create_flag(i)

SpecVocab == Init /\ [][NextVocab]_vars

\* Login requests, one after the other.
Login ==
    /\ Len(logins) < MaxLogins
    /\ \E form_data \in LoginForms : login(form_data)

NextLogin == Login

SpecLogin == Init /\ [][NextLogin]_vars

(***************************************************************************)
(* Properties                                                              *)
(***************************************************************************)
\* The step is the handler answering a delivery; the request it leaves is
\* the last of reqs'.
Handled == Len(reqs') = Len(reqs) + 1

Unsigned(r) == r.d.sig /= "good"

\* Everything the pipeline can write: the store, the mails sent and the
\* calendar.
effects == <<callLogs, referrals, flags, emailLogs, emails, calendarEvents>>

\* C1: a delivery whose signature is missing or does not verify is answered
\* 401 with nothing done but the verification (no decode, no call-log lookup,
\* no background task), and the step that answers it changes no call attempt,
\* referral, flag or email log.
C1_RejectUnsigned ==
    /\ [](\A i \in 1..Len(reqs) :
            Unsigned(reqs[i]) =>
                /\ reqs[i].resp.code = HTTP_401_UNAUTHORIZED
                /\ reqs[i].htrace = <<"verify">>
                /\ reqs[i].task.pc = "none")
    /\ [][Handled /\ Unsigned(reqs'[Len(reqs')]) => effects' = effects]_vars

\* An unsigned, otherwise acceptable delivery for the known call attempt c1
\* has been rejected.
C1_Witness ==
    \E i \in 1..Len(reqs) :
        /\ reqs[i].d.sig = None
        /\ reqs[i].d.body.form = "ok"
        /\ reqs[i].d.body.call_log_id = "c1"
        /\ reqs[i].resp.code = HTTP_401_UNAUTHORIZED

Unresolvable(r) ==
    /\ r.d.sig = "good"
    /\ r.d.body.form = "ok"
    /\ r.d.body.call_log_id \notin DOMAIN callLogs

\* C2: a validly signed, well-formed delivery with no call_log_id, or with
\* one that matches no call attempt, is answered success, submits no
\* background task, and the step changes nothing in the store.
C2_UnresolvableIsNoOp ==
    /\ [](\A i \in 1..Len(reqs) :
            Unresolvable(reqs[i]) =>
                /\ reqs[i].resp.code = HTTP_200_OK
                /\ "add_task" \notin {reqs[i].htrace[k] : k \in 1..Len(reqs[i].htrace)}
                /\ reqs[i].task.pc = "none")
    /\ [][Handled /\ Unresolvable(reqs'[Len(reqs')]) => effects' = effects]_vars

\* A delivery naming the unknown call attempt c9 was answered success after
\* the lookup, and one without call_log_id before it.
C2_Witness ==
    /\ \E i \in 1..Len(reqs) :
        /\ Unresolvable(reqs[i])
        /\ reqs[i].d.body.call_log_id = "c9"
        /\ reqs[i].htrace = <<"verify", "decode", "get_call_log">>
    /\ \E i \in 1..Len(reqs) :
        /\ Unresolvable(reqs[i])
        /\ reqs[i].d.body.call_log_id = None
        /\ reqs[i].resp.code = HTTP_200_OK

Accepted(i) == reqs[i].task.pc /= "none"

\* The task of request i has called op with result res.
Called(i, op, res) ==
    \E k \in 1..Len(Task(i).trace) : Task(i).trace[k] = <<op, res>>

Ops(i) == {Task(i).trace[k][1] : k \in 1..Len(Task(i).trace)}

\* No collaborator call of the task of request i has failed.
AllOk(i) == \A k \in 1..Len(Task(i).trace) : Task(i).trace[k][2] = "ok"

\* The downstream effects of processing: the successful referral update,
\* calendar update, email, email log and flag creation.
SideEffects(i) ==
    {k \in 1..Len(Task(i).trace) :
        /\ Task(i).trace[k][1] \notin {"update_call_log", "get_referral"}
        /\ Task(i).trace[k][2] = "ok"}

\* C3 (as claimed): a second, identical delivery accepted when the first has
\* already brought the call attempt to a terminal status has no downstream
\* side effect.
C3_RedeliveryIsNoOp ==
    \A i, j \in 1..Len(reqs) :
        ( /\ i < j
          /\ reqs[i].d = reqs[j].d
          /\ Accepted(i) /\ Accepted(j)
          /\ Task(i).pc = "done" /\ AllOk(i)
          /\ Task(j).call_log.status \in TerminalStatus )
        => SideEffects(j) = {}

\* C4 (as claimed): when one event is delivered twice and both deliveries
\* are acknowledged while the call attempt is still pending, the two tasks
\* together create at most one flag and send at most one notification.
C4_ConcurrentDuplicatesOnce ==
    \A i, j \in 1..Len(reqs) :
        ( /\ i < j
          /\ reqs[i].d = reqs[j].d
          /\ Accepted(i) /\ Accepted(j)
          /\ Task(i).call_log.status = CallStatus.PENDING
          /\ Task(j).call_log.status = CallStatus.PENDING )
        => /\ Cardinality({f \in flags : f.by \in {i, j}}) <= 1
           /\ Cardinality({e \in emails : e.by \in {i, j}}) <= 1

\* C5 (as claimed): a call attempt whose status is terminal is never written
\* again.
C5_TerminalIsFinal ==
    [][\A c \in CallLogIds :
          callLogs[c].status \in TerminalStatus => callLogs'[c] = callLogs[c]]_vars

(***************************************************************************)
(* The branch and the two scenarios                                        *)
(***************************************************************************)
IsReschedule(p) == p.outcome = "rescheduled" /\ p.new_appointment_time /= None

\* The task of request i has entered the Reschedule Orchestrator / the
\* Follow-up Flagger.
InReschedule(i) ==
    \/ Task(i).pc \in {"get_referral", "reschedule_referral", "calendar",
                       "email", "email_log"}
    \/ "get_referral" \in Ops(i)

InFlagger(i) == Task(i).pc = "create_flag" \/ "create_flag" \in Ops(i)

\* The awaited call-attempt update of the task has returned.
Updated(i) == Called(i, "update_call_log", "ok")

\* C6: once the call-attempt update has returned, the task is in exactly
\* one sub-flow: the Reschedule Orchestrator if and only if the outcome is
\* rescheduled with a new appointment time, the Follow-up Flagger otherwise;
\* before that, and when the update raised, it is in neither.
C6_ExactlyOneSubFlow ==
    \A i \in 1..Len(reqs) :
        /\ Updated(i) =>
            /\ InReschedule(i) <=> IsReschedule(Payload(i))
            /\ InFlagger(i) <=> ~IsReschedule(Payload(i))
        /\ ~Updated(i) => ~InReschedule(i) /\ ~InFlagger(i)

\* An event with outcome rescheduled and no new time has gone through the
\* Follow-up Flagger.
C6_Witness ==
    \E i \in 1..Len(reqs) :
        /\ Payload(i).outcome = "rescheduled"
        /\ Payload(i).new_appointment_time = None
        /\ Task(i).pc = "done"
        /\ Called(i, "create_flag", "ok")

\* Request i is the only delivery accepted for its call attempt.
Sole(i) ==
    \A j \in 1..Len(reqs) :
        j /= i /\ Accepted(j) => Task(j).call_log_id /= Task(i).call_log_id

\* Request i was accepted and its processing has ended with no call failed.
Processed(i) == Accepted(i) /\ Task(i).pc = "done" /\ AllOk(i)

\* C7: scenario A.  When the only delivery for a call attempt is
\* {completed, rescheduled, T} and its processing has ended with no failure,
\* the call attempt is completed/rescheduled, the referral, read as missed,
\* is scheduled at T, and there is no flag for the referral.
C7_ScenarioA ==
    \A i \in 1..Len(reqs) :
        ( /\ Processed(i) /\ Sole(i)
          /\ Payload(i).status = "completed"
          /\ IsReschedule(Payload(i)) )
        => /\ callLogs[Task(i).call_log_id].status = CallStatus.COMPLETED
           /\ callLogs[Task(i).call_log_id].resolution = CallResolution.RESCHEDULED
           /\ Task(i).existing.status = "missed"
           /\ referrals[ReferralId(i)].status = "scheduled"
           /\ referrals[ReferralId(i)].scheduled_date = Payload(i).new_appointment_time
           /\ \A f \in flags : f.data.referral_id /= ReferralId(i)

C7_Witness ==
    \E i \in 1..Len(reqs) :
        /\ Processed(i) /\ Sole(i)
        /\ Payload(i).status = "completed"
        /\ IsReschedule(Payload(i))
        /\ referrals[ReferralId(i)].status = "scheduled"

\* The new times of the reschedules that were written to referral r.
RescheduledTo(r) ==
    {Payload(i).new_appointment_time :
        i \in {j \in 1..Len(reqs) :
                /\ Accepted(j)
                /\ ReferralId(j) = r
                /\ Called(j, "reschedule_referral", "ok")}}

\* C8: a referral is either missed with its old date, or scheduled with the
\* new time of a reschedule that was written; never missed with a new date
\* nor scheduled with the old one.
C8_RescheduleAtomic ==
    \A r \in ReferralIds :
        \/ /\ referrals[r].status = "missed"
           /\ referrals[r].scheduled_date = InitReferrals[r].scheduled_date
           /\ RescheduledTo(r) = {}
        \/ /\ referrals[r].status = "scheduled"
           /\ referrals[r].scheduled_date \in RescheduledTo(r)
           /\ referrals[r].scheduled_date /= InitReferrals[r].scheduled_date

C8_Witness ==
    /\ referrals["r1"].status = "scheduled"
    /\ referrals["r1"].scheduled_date = "T1"

IsScenarioB(p) == p.status = "failed" /\ p.outcome = "declined"

\* C9: scenario B.  When the only delivery for a call attempt is {failed,
\* declined} and its processing has ended with no failure, the call attempt
\* is failed/declined, the referral is as it was (missed), and the flags of
\* the referral are one flag of priority high.  And no step of a task whose
\* event goes to the Follow-up Flagger changes any referral.
C9_ScenarioB ==
    /\ [](\A i \in 1..Len(reqs) :
            (Processed(i) /\ Sole(i) /\ IsScenarioB(Payload(i)))
            => /\ callLogs[Task(i).call_log_id].status = CallStatus.FAILED
               /\ callLogs[Task(i).call_log_id].resolution = CallResolution.DECLINED
               /\ referrals[ReferralId(i)] = InitReferrals[ReferralId(i)]
               /\ referrals[ReferralId(i)].status = "missed"
               /\ Cardinality({f \in flags : f.data.referral_id = ReferralId(i)}) = 1
               /\ \A f \in flags :
                    f.data.referral_id = ReferralId(i) =>
                        f.by = i /\ f.data.priority = "high")
    /\ [][\A i \in 1..Len(reqs) :
            (reqs'[i] /= reqs[i] /\ ~IsReschedule(Payload(i)))
            => referrals' = referrals]_vars

C9_Witness ==
    \E i \in 1..Len(reqs) :
        /\ Processed(i) /\ Sole(i) /\ IsScenarioB(Payload(i))
        /\ \E f \in flags : f.by = i

(***************************************************************************)
(* The follow-up priority                                                  *)
(***************************************************************************)
\* The key of the priority: the outcome, the status when there is none.
PriorityKey(p) == IF p.outcome \in {None, ""} THEN p.status ELSE p.outcome

\* C10: the flag a task creates has the priority the table gives for the
\* outcome, or for the status when the outcome is absent: high for declined,
\* callback_requested and failed, medium for no_answer and voicemail, urgent
\* for invalid_number, medium for anything else; every successful creation
\* leaves such a flag; and status no_answer without outcome gives priority
\* medium under the title "Follow-up needed: No Answer".
C10_PriorityTable ==
    /\ \A i \in 1..Len(reqs) :
        Called(i, "create_flag", "ok") => \E f \in flags : f.by = i
    /\ \A f \in flags :
        LET key == PriorityKey(Payload(f.by))
        IN  /\ f.data.priority =
                CASE key \in {"declined", "callback_requested", "failed"} -> "high"
                  [] key \in {"no_answer", "voicemail"} -> "medium"
                  [] key = "invalid_number" -> "urgent"
                  [] OTHER -> "medium"
            /\ (Payload(f.by).status = "no_answer" /\ Payload(f.by).outcome = None)
                => /\ f.data.priority = "medium"
                   /\ f.data.title = <<"Follow-up needed: ", "No Answer">>

\* Scenario C has produced its flag.
C10_Witness ==
    \E f \in flags :
        /\ Payload(f.by).status = "no_answer"
        /\ Payload(f.by).outcome = None
        /\ f.data.priority = "medium"

(***************************************************************************)
(* The stored status and resolution                                        *)
(***************************************************************************)
\* C11 (as claimed): the call attempt a task has written carries the status
\* of the same meaning for provider status completed, failed and no_answer,
\* the resolution the table gives for the outcome (left_voicemail for
\* voicemail, none for an absent outcome), and for any other provider status
\* a terminal status that is a failure, never completed.
C11_MappingTotal ==
    \A i \in 1..Len(reqs) :
        (Accepted(i) /\ Called(i, "update_call_log", "ok") /\ Sole(i)) =>
            LET p == Payload(i)
                row == callLogs[Task(i).call_log_id]
            IN  /\ p.status \in {"completed", "failed", "no_answer"}
                    => row.status = p.status
                /\ p.status \notin {"completed", "failed", "no_answer"}
                    => /\ row.status \in TerminalStatus
                       /\ row.status /= CallStatus.COMPLETED
                /\ p.outcome \in {"rescheduled", "declined", "callback_requested",
                                  "no_answer"}
                    => row.resolution = p.outcome
                /\ p.outcome = "voicemail" => row.resolution = "left_voicemail"
                /\ p.outcome \in {None, ""} => row.resolution = None

(***************************************************************************)
(* Failures inside the reschedule                                          *)
(***************************************************************************)
EmailOps == {"send_appointment_rescheduled_email", "create_email_log"}

\* The calendar update of task i failed / its email or email log failed.
CalendarFailed(i) == Called(i, "update_referral_event", "raise")
EmailFailed(i) ==
    \E k \in 1..Len(Task(i).trace) :
        Task(i).trace[k][1] \in EmailOps /\ Task(i).trace[k][2] /= "ok"

\* The referral of task i is scheduled at the new time of a reschedule that
\* was written (the task's own when it is the only delivery).
StaysRescheduled(i) ==
    /\ referrals[ReferralId(i)].status = "scheduled"
    /\ referrals[ReferralId(i)].scheduled_date \in RescheduledTo(ReferralId(i))
    /\ Sole(i) => referrals[ReferralId(i)].scheduled_date =
                      Payload(i).new_appointment_time

\* C12: scenario D.  After the calendar update of a task has failed, the
\* referral is still scheduled at the new time, the task has not ended in
\* error, and once it is past the email step the email was attempted when
\* the referral has a contact email.  After the email or its log has failed,
\* the referral is still scheduled at the new time and the task has ended
\* normally.
C12_ScenarioD ==
    \A i \in 1..Len(reqs) :
        /\ CalendarFailed(i) =>
            /\ Truthy(Task(i).existing.calendar_event_id)
            /\ StaysRescheduled(i)
            /\ Task(i).pc \in {"email", "email_log", "done"}
            /\ (Task(i).pc \in {"email_log", "done"}
                    /\ Truthy(Task(i).referral.patient_email))
                => "send_appointment_rescheduled_email" \in Ops(i)
        /\ EmailFailed(i) =>
            /\ StaysRescheduled(i)
            /\ Task(i).pc = "done"

\* The calendar update failed, the email went out all the same and the task
\* has ended normally.
C12_Witness ==
    \E i \in 1..Len(reqs) :
        /\ CalendarFailed(i)
        /\ Called(i, "send_appointment_rescheduled_email", "ok")
        /\ Task(i).pc = "done"
        /\ referrals[ReferralId(i)].status = "scheduled"

\* The referral of task i was not found, or its update failed.
ReferralNotFound(i) == Called(i, "get_referral", "none")
ReferralUpdateFailed(i) ==
    \/ Called(i, "reschedule_referral", "none")
    \/ Called(i, "reschedule_referral", "raise")

\* After its referral was not found or its referral update failed, task i
\* has made no calendar update and no email attempt.
AbortedBeforeNotifying(i) ==
    /\ Ops(i) \cap ({"update_referral_event"} \cup EmailOps) = {}
    /\ Task(i).pc \in {"done", "error"}
    /\ \A e \in emails : e.by /= i

\* C13 (as claimed): when the referral of a reschedule is not found or its
\* update fails, the task attempts neither the calendar update nor the
\* email, and it ends in error, not with a normal return.
C13_ReferralUpdateFatal ==
    \A i \in 1..Len(reqs) :
        (ReferralNotFound(i) \/ ReferralUpdateFailed(i)) =>
            /\ AbortedBeforeNotifying(i)
            /\ Task(i).pc = "error"

(***************************************************************************)
(* The acknowledgment                                                      *)
(***************************************************************************)
\* The delivery of request r is validly signed, decodes and names a known
\* call attempt.
Resolves(r) ==
    /\ ~Unsigned(r)
    /\ payload_validates(r.d.body)
    /\ r.d.body.call_log_id \in CallLogIds

\* C14: a delivery that resolves to a known call attempt is answered success
\* "Webhook received, processing" with its task submitted; the step that
\* answers it writes no call attempt, referral, calendar event, email, email
\* log or flag and leaves the task before its first step; and no later step,
\* a failing task included, changes the answer of a request.
C14_AckBeforeProcessing ==
    /\ [](\A i \in 1..Len(reqs) :
            Resolves(reqs[i]) =>
                /\ reqs[i].resp = Response(HTTP_200_OK, "Webhook received, processing")
                /\ reqs[i].htrace = <<"verify", "decode", "get_call_log", "add_task">>
                /\ Accepted(i))
    /\ [][Handled /\ Resolves(reqs'[Len(reqs')]) =>
            /\ effects' = effects
            /\ reqs'[Len(reqs')].task.pc = "update_call_log"
            /\ reqs'[Len(reqs')].task.trace = <<>>]_vars
    /\ [][\A i \in 1..Len(reqs) :
            /\ reqs'[i].resp = reqs[i].resp
            /\ reqs'[i].htrace = reqs[i].htrace]_vars

\* The task of an acknowledged delivery has ended in error and the
\* acknowledgment stands.
C14_Witness ==
    \E i \in 1..Len(reqs) :
        /\ Resolves(reqs[i])
        /\ Task(i).pc = "error"
        /\ reqs[i].resp.code = HTTP_200_OK

\* The delivery of request r is validly signed and its body is not JSON or
\* lacks a required field.
Undecodable(r) == ~Unsigned(r) /\ ~payload_validates(r.d.body)

\* C15: a validly signed delivery whose body is malformed JSON or lacks
\* status or the correlation payload is answered 400 after verification and
\* decoding alone (no call-log lookup, no background task), and the step
\* that answers it changes no call attempt, referral, flag, email log, email
\* or calendar event.
C15_RejectUndecodable ==
    /\ [](\A i \in 1..Len(reqs) :
            Undecodable(reqs[i]) =>
                /\ reqs[i].resp.code = HTTP_400_BAD_REQUEST
                /\ reqs[i].htrace = <<"verify", "decode">>
                /\ reqs[i].task.pc = "none")
    /\ [][Handled /\ Undecodable(reqs'[Len(reqs')]) => effects' = effects]_vars

\* A body that is not JSON, naming the known call attempt c1, and one
\* without the correlation payload have each been answered 400.
C15_Witness ==
    \A f \in {"malformed_json", "missing_metadata"} :
        \E i \in 1..Len(reqs) :
            /\ Undecodable(reqs[i])
            /\ reqs[i].d.body.form = f
            /\ reqs[i].resp.code = HTTP_400_BAD_REQUEST

(***************************************************************************)
(* What a processed delivery leaves behind                                 *)
(***************************************************************************)
\* Task i has rescheduled its referral / has created an open flag for it.
LeftRescheduled(i) ==
    /\ Called(i, "reschedule_referral", "ok")
    /\ referrals[ReferralId(i)].status = "scheduled"
    /\ referrals[ReferralId(i)].scheduled_date \in RescheduledTo(ReferralId(i))

LeftFlag(i) ==
    \E f \in flags :
        /\ f.by = i
        /\ f.data.referral_id = ReferralId(i)
        /\ f.data.status = "open"

\* C16 (as claimed): when the task of an accepted delivery has ended
\* normally, it has rescheduled the referral or created an open flag for it.
C16_NeverSilentlyDropped ==
    \A i \in 1..Len(reqs) :
        (Accepted(i) /\ Task(i).pc = "done") => LeftRescheduled(i) \/ LeftFlag(i)

(***************************************************************************)
(* The call-attempt write comes first                                      *)
(***************************************************************************)
\* The sub-flow calls, and what task i has left in the store, the mailbox
\* and the calendar.
SubFlowOps ==
    {"get_referral", "reschedule_referral", "update_referral_event",
     "create_flag"} \cup EmailOps

NoSubFlowEffect(i) ==
    /\ Ops(i) \cap SubFlowOps = {}
    /\ \A f \in flags : f.by /= i
    /\ \A e \in emails : e.by /= i
    /\ \A l \in emailLogs : l.by /= i

\* C17: the first call of a task is the call-attempt write, and every
\* sub-flow call comes after a write that succeeded, whose row (status,
\* resolution, transcript, duration, completed-at) is then in the store;
\* a task whose call-attempt write failed has ended in error having made no
\* other call and left no flag, email or email log; and the step that
\* performs or fails the write changes no referral, flag, calendar event,
\* email or email log.
C17_CallLogFirst ==
    /\ [](\A i \in 1..Len(reqs) :
            /\ Task(i).trace /= <<>> => Task(i).trace[1][1] = "update_call_log"
            /\ ~Called(i, "update_call_log", "ok") => NoSubFlowEffect(i)
            /\ Called(i, "update_call_log", "ok") =>
                /\ callLogs[Task(i).call_log_id].status \in TerminalStatus
                /\ callLogs[Task(i).call_log_id].completed_at /= <<>>
                /\ Sole(i) =>
                    \E t \in 1..now :
                        callLogs[Task(i).call_log_id] =
                            ApplyUpdate(Task(i).call_log, call_update(Payload(i), t))
            /\ Called(i, "update_call_log", "raise") =>
                /\ Task(i).pc = "error"
                /\ Len(Task(i).trace) = 1)
    /\ [][\A i \in 1..Len(reqs) :
            (Task(i).pc = "update_call_log" /\ reqs'[i] /= reqs[i]) =>
                <<referrals, flags, emailLogs, emails, calendarEvents>>' =
                <<referrals, flags, emailLogs, emails, calendarEvents>>]_vars

\* A call-attempt write has failed and the task has ended there, with the
\* call attempt and the referral as they were.
C17_Witness ==
    \E i \in 1..Len(reqs) :
        /\ Called(i, "update_call_log", "raise")
        /\ Task(i).pc = "error"
        /\ Sole(i)
        /\ callLogs[Task(i).call_log_id] = InitCallLogs[Task(i).call_log_id]
        /\ referrals = InitReferrals

(***************************************************************************)
(* Flags                                                                   *)
(***************************************************************************)
FlagCreationFailed(i) == Called(i, "create_flag", "raise")

\* The flag creations task i has attempted.
FlagAttempts(i) ==
    {k \in 1..Len(Task(i).trace) : Task(i).trace[k][1] = "create_flag"}

\* C18: a task whose flag creation failed has ended in error after that one
\* attempt and has left no flag; the call attempt is still as the task wrote
\* it, the referral is as it was, and the delivery is still acknowledged.
\* The step that attempts the creation changes no call attempt, no referral
\* and no other request.
C18_FlagFailureEndsAttempt ==
    /\ [](\A i \in 1..Len(reqs) :
            FlagCreationFailed(i) =>
                /\ Task(i).pc = "error"
                /\ Cardinality(FlagAttempts(i)) = 1
                /\ \A f \in flags : f.by /= i
                /\ reqs[i].resp = Response(HTTP_200_OK, "Webhook received, processing")
                /\ callLogs[Task(i).call_log_id].status \in TerminalStatus
                /\ Sole(i) =>
                    /\ \E t \in 1..now :
                        callLogs[Task(i).call_log_id] =
                            ApplyUpdate(Task(i).call_log, call_update(Payload(i), t))
                    /\ referrals[ReferralId(i)] = InitReferrals[ReferralId(i)])
    /\ [][\A i \in 1..Len(reqs) :
            (Task(i).pc = "create_flag" /\ reqs'[i] /= reqs[i]) =>
                /\ callLogs' = callLogs
                /\ referrals' = referrals
                /\ \A j \in 1..Len(reqs) : j /= i => reqs'[j] = reqs[j]]_vars

\* A flag creation has failed after the call attempt was written as failed
\* and declined.
C18_Witness ==
    \E i \in 1..Len(reqs) :
        /\ FlagCreationFailed(i)
        /\ Sole(i)
        /\ callLogs[Task(i).call_log_id].status = CallStatus.FAILED
        /\ callLogs[Task(i).call_log_id].resolution = CallResolution.DECLINED
        /\ flags = {}

\* C19: every flag in the store has status open, and no step removes a flag
\* or changes one: each flag of the store is in the store after the step,
\* field for field.
C19_FlagsOnlyGrow ==
    /\ [](\A f \in flags : f.data.status = "open")
    /\ [][flags \subseteq flags']_vars

\* Two deliveries have each left a flag, and both flags are open.
C19_Witness ==
    /\ Cardinality(flags) = 2
    /\ \A f \in flags : f.data.status = "open"

(***************************************************************************)
(* The optional calendar                                                   *)
(***************************************************************************)
\* Task i has written its referral and is past the calendar step / past the
\* email step.
PastCalendar(i) ==
    /\ Called(i, "reschedule_referral", "ok")
    /\ Task(i).pc \in {"email", "email_log", "done"}

PastEmail(i) ==
    /\ Called(i, "reschedule_referral", "ok")
    /\ Task(i).pc \in {"email_log", "done"}

\* C20: without the calendar service a task that has written its referral
\* leaves it scheduled at the new time, makes no calendar call, changes no
\* calendar event, does not end in error, and once past the email step has
\* attempted the email when the referral has a contact email.  With the
\* service, a calendar update is attempted exactly for a referral that has a
\* linked calendar event.
C20_CalendarOptional ==
    \A i \in 1..Len(reqs) :
        /\ "update_referral_event" \in Ops(i) =>
            /\ calendar_available
            /\ Truthy(InitReferrals[ReferralId(i)].calendar_event_id)
        /\ (PastCalendar(i) /\ calendar_available
                /\ Truthy(InitReferrals[ReferralId(i)].calendar_event_id))
            => "update_referral_event" \in Ops(i)
        /\ (~calendar_available /\ Called(i, "reschedule_referral", "ok")) =>
            /\ StaysRescheduled(i)
            /\ Task(i).pc \in {"calendar", "email", "email_log", "done"}
            /\ \A e \in DOMAIN calendarEvents : calendarEvents[e] = "D0"
            /\ (PastEmail(i) /\ Truthy(InitReferrals[ReferralId(i)].patient_email))
                => "send_appointment_rescheduled_email" \in Ops(i)

\* Without the calendar service, the reschedule of a referral that has a
\* linked calendar event has ended with the referral scheduled and the email
\* sent.
C20_Witness ==
    \E i \in 1..Len(reqs) :
        /\ ~calendar_available
        /\ Task(i).pc = "done"
        /\ Truthy(InitReferrals[ReferralId(i)].calendar_event_id)
        /\ referrals[ReferralId(i)].status = "scheduled"
        /\ Called(i, "send_appointment_rescheduled_email", "ok")
        /\ "update_referral_event" \notin Ops(i)

(***************************************************************************)
(* The reschedule email and its log                                        *)
(***************************************************************************)
\* Task i called op with result res after its k-th call.
CalledAfter(i, k, op, res) ==
    \E n \in (k + 1)..Len(Task(i).trace) : Task(i).trace[n] = <<op, res>>

\* C21: a task attempts the reschedule email only after its referral update
\* has succeeded and only for a referral that has a contact email; it
\* attempts the log entry only after the email service reported success;
\* every log entry has status sent and was made by a task whose send
\* succeeded; and a task whose send failed or was skipped has no log entry.
C21_EmailThenLog ==
    /\ \A i \in 1..Len(reqs) :
        /\ "send_appointment_rescheduled_email" \in Ops(i) =>
            /\ Truthy(InitReferrals[ReferralId(i)].patient_email)
            /\ \E k \in 1..Len(Task(i).trace) :
                /\ Task(i).trace[k] = <<"reschedule_referral", "ok">>
                /\ \E res \in {"ok", "unsuccessful", "raise"} :
                    CalledAfter(i, k, "send_appointment_rescheduled_email", res)
            /\ \A k \in 1..Len(Task(i).trace) :
                Task(i).trace[k][1] = "send_appointment_rescheduled_email" =>
                    <<"reschedule_referral", "ok">> \in
                        {Task(i).trace[n] : n \in 1..(k - 1)}
        /\ "create_email_log" \in Ops(i) =>
            \E k \in 1..Len(Task(i).trace) :
                /\ Task(i).trace[k] = <<"send_appointment_rescheduled_email", "ok">>
                /\ \E res \in {"ok", "raise"} :
                    CalledAfter(i, k, "create_email_log", res)
        /\ ~Called(i, "send_appointment_rescheduled_email", "ok") =>
            \A l \in emailLogs : l.by /= i
    /\ \A l \in emailLogs :
        /\ l.status = "sent"
        /\ Called(l.by, "send_appointment_rescheduled_email", "ok")
        /\ Called(l.by, "create_email_log", "ok")
        /\ \E e \in emails : e.by = l.by /\ e.to_email = l.recipient_email

\* An email went out and its log entry was written.
C21_Witness ==
    \E l \in emailLogs :
        /\ l.status = "sent"
        /\ Task(l.by).pc = "done"
        /\ Called(l.by, "send_appointment_rescheduled_email", "ok")

(***************************************************************************)
(* login                                                                   *)
(***************************************************************************)
\* The login request just answered.
LoggedIn == Len(logins') = Len(logins) + 1

\* What the claim asks of a form: a user with the email exists, the stored
\* hash is the hash of the password, and the account is active (a row
\* without is_active counts as active).
KnownEmail(f) == f.username \in DOMAIN InitUsers
RightPassword(f) ==
    KnownEmail(f) /\ InitUsers[f.username].password_hash = <<"bcrypt", f.password>>
ActiveAccount(f) ==
    KnownEmail(f) /\ ("is_active" \in DOMAIN InitUsers[f.username]
                        => InitUsers[f.username].is_active)

\* C22: a login answer carries a token only for a known email, the right
\* password and an active account; an unknown email or a wrong password is
\* answered 401 and an inactive account 403, without a token; the last-login
\* record of a user changes only in a step that answers such a login with a
\* token, for that user alone; password hashes and activity never change.
C22_LoginGuards ==
    /\ [](\A k \in 1..Len(logins) :
            LET r == logins[k]
            IN  /\ r.token /= NoToken =>
                    /\ KnownEmail(r.form) /\ RightPassword(r.form)
                    /\ ActiveAccount(r.form)
                    /\ r.code = HTTP_200_OK
                    /\ r.token[1].email = r.form.username
                /\ (~KnownEmail(r.form) \/ ~RightPassword(r.form)) =>
                    r.code = HTTP_401_UNAUTHORIZED /\ r.token = NoToken
                /\ (RightPassword(r.form) /\ ~ActiveAccount(r.form)) =>
                    r.code = HTTP_403_FORBIDDEN /\ r.token = NoToken)
    /\ [][LoggedIn =>
            LET r == logins'[Len(logins')]
            IN  /\ r.token = NoToken => users' = users
                /\ r.token /= NoToken =>
                    /\ users'[r.form.username].last_login = <<now>>
                    /\ \A e \in DOMAIN users :
                        e /= r.form.username => users'[e] = users[e]
                /\ \A e \in DOMAIN users :
                    /\ users'[e].password_hash = users[e].password_hash
                    /\ Get(users'[e], "is_active", TRUE) = Get(users[e], "is_active", TRUE)]_vars

\* The inactive user was refused with the right password, and the active
\* user was given a token.
C22_Witness ==
    /\ \E k \in 1..Len(logins) :
        /\ logins[k].form = [username |-> "b@x", password |-> "pw_b"]
        /\ logins[k].code = HTTP_403_FORBIDDEN
        /\ users["b@x"].last_login = <<>>
    /\ \E k \in 1..Len(logins) :
        /\ logins[k].form.username = "a@x"
        /\ logins[k].token /= NoToken
        /\ users["a@x"].last_login /= <<>>

====
